---- MODULE Spec2Model ----
(***************************************************************************)
(* Model of akatsuki-pp-rs `GameMods` (src/src/model/mods.rs): the tagged  *)
(* union over the three mod representations (Lazer, Intermode, Legacy),    *)
(* its `From` constructors and its query functions.                        *)
(*                                                                         *)
(* Encoding conventions                                                    *)
(*   Option<T>      : <<>> is None, <<v>> is Some(v)                       *)
(*   f64            : a record [s, e, hi, lo], see the F64 section         *)
(*   u32 / bitflags : the set of bit positions (0..31) that are set        *)
(*   GameMod        : a record, `id` the GameModIntermode identity and     *)
(*                    `mode` the game mode of the variant, so that the     *)
(*                    variant `HardRockOsu` is id "HardRock", mode "Osu"   *)
(***************************************************************************)
EXTENDS Integers, Sequences, FiniteSets

VARIABLES input, mods, query, arg, result

vars == <<input, mods, query, arg, result>>

\* Largest number of set bits of a raw u32 bitmask / legacy flag value.
MaxBits == 2
\* Largest number of identities of a GameModsIntermode set.
MaxIds == 2
\* Largest number of entries of a GameModsLazer collection.
MaxMods == 2

None == <<>>
Some(v) == <<v>>

(***************************************************************************)
(* F64: IEEE-754 binary64, normal numbers only.  The 53 bit significand is *)
(* M = hi * 2^26 + lo with 2^26 <= hi < 2^27 and 0 <= lo < 2^26; the value *)
(* is (-1)^s * M * 2^(e - 52).  Arithmetic is round-to-nearest, ties to    *)
(* even, as Rust's f64 operators.                                          *)
(***************************************************************************)
B26 == 2^26

F64(s, e, hi, lo) == [s |-> s, e |-> e, hi |-> hi, lo |-> lo]

\* Literals of the source and the custom values the model draws from.
F64_1_0  == F64(0, 0, 67108864, 0)
F64_1_5  == F64(0, 0, 100663296, 0)
F64_0_75 == F64(0, -1, 100663296, 0)
F64_1_4  == F64(0, 0, 93952409, 40265318)
F64_0_5  == F64(0, -1, 67108864, 0)
F64_1_25 == F64(0, 0, 83886080, 0)
F64_1_8  == F64(0, 0, 120795955, 13421773)
F64_0_9  == F64(0, -1, 120795955, 13421773)
F64_0_8  == F64(0, -1, 107374182, 26843546)
F64_5_0  == F64(0, 2, 83886080, 0)
F64_2_5  == F64(0, 1, 83886080, 0)
F64_3e9  == F64(0, 31, 93750000, 0)

\* Two-limb naturals [hi, lo] in base 2^26 (lo < 2^26, hi unbounded).
BigMul(x, c) ==
    LET l == x.lo * c
    IN  [hi |-> x.hi * c + (l \div B26), lo |-> l % B26]

BigDivMod(x, d) ==
    LET r == x.hi % d
        n == r * B26 + x.lo
    IN  [q |-> [hi |-> x.hi \div d, lo |-> n \div d], r |-> n % d]

BigInc(x) ==
    IF x.lo + 1 = B26 THEN [hi |-> x.hi + 1, lo |-> 0]
                      ELSE [hi |-> x.hi, lo |-> x.lo + 1]

\* Right shift of a two-limb natural by sh bits, rounded to nearest, ties to even.
BigShiftRound(x, sh) ==
    LET dm   == BigDivMod(x, 2^sh)
        half == 2^(sh - 1)
        up   == \/ dm.r > half
                \/ dm.r = half /\ dm.q.lo % 2 = 1
    IN  IF up THEN BigInc(dm.q) ELSE dm.q

\* x / d for a nominal d, that is d = 1.5 * 2^d.e (1.5 and 0.75), whose
\* significand is 3 * 2^51: the significand of the quotient is M * 2^k / 3,
\* with k the shift that brings it into [2^52, 2^53); a remainder of 1 rounds
\* down, of 2 rounds up (a third is never a tie).
F64DivNominal(x, d) ==
    LET small == x.hi < 3 * 2^25
        n     == BigMul([hi |-> x.hi, lo |-> x.lo], IF small THEN 4 ELSE 2)
        dm    == BigDivMod(n, 3)
        q     == IF dm.r = 2 THEN BigInc(dm.q) ELSE dm.q
    IN  F64(x.s, IF small THEN x.e - d.e - 1 ELSE x.e - d.e, q.hi, q.lo)

\* d * y for a nominal d: the exact product is 3 * M * 2^(..), of 54 or 55
\* bits, rounded back to 53 bits and renormalised when it rounds up to 2^53.
F64MulNominal(d, y) ==
    LET t     == BigMul([hi |-> y.hi, lo |-> y.lo], 3)
        short == t.hi < 2^28
        p     == BigShiftRound(t, IF short THEN 1 ELSE 2)
        e     == IF short THEN y.e + d.e ELSE y.e + d.e + 1
    IN  IF p.hi = 2^27 THEN F64(y.s, e + 1, 2^26, 0)
                       ELSE F64(y.s, e, p.hi, p.lo)

I32Max == (2^30 - 1) + 2^30
I32Min == (-I32Max) - 1

\* `x as i32`: truncation toward zero, saturating at the bounds of i32.
F64AsI32(x) ==
    LET mag == IF x.e < 0 THEN 0
               ELSE IF x.e <= 26 THEN x.hi \div 2^(26 - x.e)
               ELSE x.hi * 2^(x.e - 26) + (x.lo \div 2^(52 - x.e))
    IN  IF x.e >= 31 THEN (IF x.s = 1 THEN I32Min ELSE I32Max)
        ELSE IF x.s = 1 THEN -mag ELSE mag


(***************************************************************************)
(* rosu_mods: the external crate's types, as far as GameMods uses them.    *)
(***************************************************************************)

\* GameModIntermode: the mod identities the model draws from.
KeyIds == <<"OneKey", "TwoKeys", "ThreeKeys", "FourKeys", "FiveKeys",
            "SixKeys", "SevenKeys", "EightKeys", "NineKeys", "TenKeys">>

Identities ==
    {"NoFail", "Easy", "TouchDevice", "Hidden", "HardRock", "SuddenDeath",
     "Perfect", "DoubleTime", "Relax", "HalfTime", "Nightcore", "Daycore",
     "Flashlight", "SpunOut", "Autopilot", "Blinds", "Classic", "Invert",
     "HoldOff", "Traceable", "Mirror", "Random", "DifficultyAdjust"}
    \cup {KeyIds[i] : i \in 1..10}

\* GameModsLegacy: each flag is the set of bit positions it occupies.
LegacyFlag(name) ==
    CASE name = "NoMod"       -> {}
      [] name = "NoFail"      -> {0}
      [] name = "Easy"        -> {1}
      [] name = "TouchDevice" -> {2}
      [] name = "Hidden"      -> {3}
      [] name = "HardRock"    -> {4}
      [] name = "SuddenDeath" -> {5}
      [] name = "DoubleTime"  -> {6}
      [] name = "Relax"       -> {7}
      [] name = "HalfTime"    -> {8}
      [] name = "Nightcore"   -> {6, 9}
      [] name = "Flashlight"  -> {10}
      [] name = "SpunOut"     -> {12}
      [] name = "Autopilot"   -> {13}
      [] name = "Perfect"     -> {5, 14}
      [] name = "Key4"        -> {15}
      [] name = "Key5"        -> {16}
      [] name = "Key6"        -> {17}
      [] name = "Key7"        -> {18}
      [] name = "Key8"        -> {19}
      [] name = "Random"      -> {21}
      [] name = "Key9"        -> {24}
      [] name = "Key1"        -> {26}
      [] name = "Key3"        -> {27}
      [] name = "Key2"        -> {28}
      [] name = "Mirror"      -> {30}

\* Every bit some legacy flag occupies (bit 31 is no flag's).
LegacyAllBits == 0..30

\* All bit positions of a u32.
U32Bits == 0..31

\* GameModsLegacy::from_bits: bits outside the enumeration are dropped.
LegacyFromBits(bits) == bits \cap LegacyAllBits

\* GameModsLegacy::contains (bitflags): every bit of the flag is set.
LegacyContains(legacy, name) == LegacyFlag(name) \subseteq legacy

\* GameModsLegacy::clock_rate.
LegacyClockRate(legacy) ==
    IF LegacyContains(legacy, "DoubleTime") THEN F64_1_5
    ELSE IF LegacyContains(legacy, "HalfTime") THEN F64_0_75
    ELSE F64_1_0

\* GameModIntermode::bits: the legacy bits of an identity, if it has any.
IntermodeBits(id) ==
    CASE id \in {"NoFail", "Easy", "TouchDevice", "Hidden", "HardRock",
                 "SuddenDeath", "DoubleTime", "Relax", "HalfTime", "Nightcore",
                 "Flashlight", "SpunOut", "Autopilot", "Perfect", "Random",
                 "Mirror"} -> Some(LegacyFlag(id))
      [] id = "OneKey"    -> Some(LegacyFlag("Key1"))
      [] id = "TwoKeys"   -> Some(LegacyFlag("Key2"))
      [] id = "ThreeKeys" -> Some(LegacyFlag("Key3"))
      [] id = "FourKeys"  -> Some(LegacyFlag("Key4"))
      [] id = "FiveKeys"  -> Some(LegacyFlag("Key5"))
      [] id = "SixKeys"   -> Some(LegacyFlag("Key6"))
      [] id = "SevenKeys" -> Some(LegacyFlag("Key7"))
      [] id = "EightKeys" -> Some(LegacyFlag("Key8"))
      [] id = "NineKeys"  -> Some(LegacyFlag("Key9"))
      [] OTHER            -> None

\* GameModsIntermode::checked_bits: the union of the identities' bits, or
\* None as soon as one identity has no legacy bit.
CheckedBits(ids) ==
    IF \E id \in ids : IntermodeBits(id) = None THEN None
    ELSE Some(UNION {IntermodeBits(id)[1] : id \in ids})

\* GameModsIntermode::contains.
IntermodeContains(ids, id) == id \in ids

\* GameModsIntermode::legacy_clock_rate.
IntermodeLegacyClockRate(ids) ==
    IF IntermodeContains(ids, "DoubleTime") \/ IntermodeContains(ids, "Nightcore")
    THEN F64_1_5
    ELSE IF IntermodeContains(ids, "HalfTime") \/ IntermodeContains(ids, "Daycore")
    THEN F64_0_75
    ELSE F64_1_0

\* GameMod: one entry of a GameModsLazer collection, all settings unset.
Mod(id, mode) ==
    [id |-> id, mode |-> mode,
     speed_change |-> None, reflection |-> None,
     no_slider_head_accuracy |-> None,
     approach_rate |-> None, circle_size |-> None, drain_rate |-> None,
     overall_difficulty |-> None, scroll_speed |-> None,
     hard_rock_offsets |-> None, seed |-> None]

\* GameMod::intermode: the identity of the entry.
Intermode(m) == m.id

\* GameMod::clock_rate: the entry's configured rate, if it carries one.
ModClockRate(m) == m.speed_change

\* Whether the entry is the given variant, e.g. IsVariant(m, "HardRock", "Osu")
\* for the pattern GameMod::HardRockOsu(_).
IsVariant(m, id, mode) == m.id = id /\ m.mode = mode

\* GameModsLazer::contains_intermode.
ContainsIntermode(lazer, id) == \E i \in 1..Len(lazer) : Intermode(lazer[i]) = id

\* Iterator::find_map, given what the closure yields for each entry in
\* collection order: the first Some.
FindMap(yields) ==
    LET hits == {i \in 1..Len(yields) : yields[i] # None}
    IN  IF hits = {} THEN None
        ELSE yields[CHOOSE i \in hits : \A j \in hits : i <= j]

(***************************************************************************)
(* GameMods: the tagged union.  Exactly one of the three payload fields is *)
(* meaningful, the one `tag` names; the other two are empty.               *)
(***************************************************************************)
Lazer(lazer)   == [tag |-> "Lazer", lazer |-> lazer, intermode |-> {}, legacy |-> {}]
IntermodeV(ids) == [tag |-> "Intermode", lazer |-> <<>>, intermode |-> ids, legacy |-> {}]
Legacy(legacy) == [tag |-> "Legacy", lazer |-> <<>>, intermode |-> {}, legacy |-> legacy]

\* DEFAULT naming the flag next to NoMod.
DefaultNoFail == Legacy(LegacyFlag("NoFail"))

\* GameMods::DEFAULT
DEFAULT == Legacy(LegacyFlag("NoMod"))

\* impl Default for GameMods
Default == DEFAULT

\* impl From<GameModsLazer> for GameMods
FromLazer(lazer) == Lazer(lazer)

\* impl From<GameModsIntermode> for GameMods
FromIntermode(ids) == IntermodeV(ids)

\* impl From<GameModsLegacy> for GameMods
FromLegacy(legacy) == Legacy(legacy)

\* impl From<u32> for GameMods
FromU32(bits) == FromLegacy(LegacyFromBits(bits))

\* FromIntermodeRef with `checked_bits` replaced by the union of the bits
\* of the identities that have any, the others silently dropped.
FromIntermodeRefLossy(ids) ==
    FromU32(UNION {IntermodeBits(id)[1] : id \in {i \in ids : IntermodeBits(i) # None}})

\* impl From<&GameModsIntermode> for GameMods
FromIntermodeRef(ids) ==
    LET bits == CheckedBits(ids)
    IN  IF bits # None THEN FromU32(bits[1]) ELSE FromIntermode(ids)


(***************************************************************************)
(* Queries of GameMods.                                                    *)
(***************************************************************************)

\* impl_has_mod!: the table of the macro invocation, fn |-> (is_legacy, name).
HasModFns == {"nf", "ez", "td", "hd", "hr", "rx", "fl", "so", "ap",
              "bl", "cl", "invert", "ho", "tc"}

HasModName(fn) ==
    CASE fn = "nf" -> "NoFail"
      [] fn = "ez" -> "Easy"
      [] fn = "td" -> "TouchDevice"
      [] fn = "hd" -> "Hidden"
      [] fn = "hr" -> "HardRock"
      [] fn = "rx" -> "Relax"
      [] fn = "fl" -> "Flashlight"
      [] fn = "so" -> "SpunOut"
      [] fn = "ap" -> "Autopilot"
      [] fn = "bl" -> "Blinds"
      [] fn = "cl" -> "Classic"
      [] fn = "invert" -> "Invert"
      [] fn = "ho" -> "HoldOff"
      [] fn = "tc" -> "Traceable"

\* The invocation table with `hr` marked `-`.
HasModIsLegacyHrMinus(fn) == fn \in {"nf", "ez", "td", "hd", "rx", "fl", "so", "ap"}

HasModIsLegacy(fn) == fn \in {"nf", "ez", "td", "hd", "hr", "rx", "fl", "so", "ap"}

\* impl_has_mod!, the LEGACY arm: `+` looks the flag up, `-` is false.
HasModLegacy(fn, legacy) ==
    IF HasModIsLegacy(fn) THEN LegacyContains(legacy, HasModName(fn)) ELSE FALSE

\* impl_has_mod!: the generated fn `fn`.
has_mod(fn, m) ==
    CASE m.tag = "Lazer"     -> ContainsIntermode(m.lazer, HasModName(fn))
      [] m.tag = "Intermode" -> IntermodeContains(m.intermode, HasModName(fn))
      [] m.tag = "Legacy"    -> HasModLegacy(fn, m.legacy)

hr(m) == has_mod("hr", m)
ez(m) == has_mod("ez", m)

\* ClockRateOf falling back to the nominal rate when a Nightcore or Daycore
\* entry carries no rate, instead of yielding None.
ClockRateOfNominalFallback(m) ==
    IF Intermode(m) \in {"DoubleTime", "HalfTime"} THEN ModClockRate(m)
    ELSE IF Intermode(m) \in {"Nightcore", "Daycore"}
    THEN LET default == IF Intermode(m) = "Nightcore" THEN F64_1_5 ELSE F64_0_75
             rate    == ModClockRate(m)
         IN  IF rate = None THEN Some(default)
             ELSE Some(F64MulNominal(default, F64DivNominal(rate[1], default)))
    ELSE None

\* The closure of clock_rate's find_map.
ClockRateOf(m) ==
    IF Intermode(m) \in {"DoubleTime", "HalfTime"} THEN ModClockRate(m)
    ELSE IF Intermode(m) \in {"Nightcore", "Daycore"}
    THEN LET default == IF Intermode(m) = "Nightcore" THEN F64_1_5 ELSE F64_0_75
             rate    == ModClockRate(m)
         IN  IF rate = None THEN None
             ELSE Some(F64MulNominal(default, F64DivNominal(rate[1], default)))
    ELSE None

\* GameMods::clock_rate
clock_rate(m) ==
    CASE m.tag = "Lazer" ->
            LET found == FindMap([i \in 1..Len(m.lazer) |-> ClockRateOf(m.lazer[i])])
            IN  IF found = None THEN F64_1_0 ELSE found[1]
      [] m.tag = "Intermode" -> IntermodeLegacyClockRate(m.intermode)
      [] m.tag = "Legacy"    -> LegacyClockRate(m.legacy)

\* od_ar_hp_multiplier with the two branches in the other order.
od_ar_hp_multiplier_EzFirst(m) ==
    IF ez(m) THEN F64_0_5
    ELSE IF hr(m) THEN F64_1_4
    ELSE F64_1_0

\* GameMods::od_ar_hp_multiplier
od_ar_hp_multiplier(m) ==
    IF hr(m) THEN F64_1_4
    ELSE IF ez(m) THEN F64_0_5
    ELSE F64_1_0

HardRockOffsetsOf(m) ==
    IF IsVariant(m, "DifficultyAdjust", "Catch") THEN m.hard_rock_offsets ELSE None

\* hardrock_offsets::custom_hardrock_offsets
custom_hardrock_offsets(m) ==
    IF m.tag = "Lazer" THEN FindMap([i \in 1..Len(m.lazer) |-> HardRockOffsetsOf(m.lazer[i])]) ELSE None

\* GameMods::hardrock_offsets
hardrock_offsets(m) ==
    LET custom == custom_hardrock_offsets(m)
    IN  IF custom = None THEN hr(m) ELSE custom[1]

\* NoSliderHeadAccOf with `unwrap_or(false)`.
NoSliderHeadAccOfDefaultFalse(m) ==
    IF IsVariant(m, "Classic", "Osu")
    THEN Some(IF m.no_slider_head_accuracy = None THEN FALSE
              ELSE m.no_slider_head_accuracy[1])
    ELSE None

NoSliderHeadAccOf(m) ==
    IF IsVariant(m, "Classic", "Osu")
    THEN Some(IF m.no_slider_head_accuracy = None THEN TRUE
              ELSE m.no_slider_head_accuracy[1])
    ELSE None

\* GameMods::no_slider_head_acc
no_slider_head_acc(m, lazer) ==
    CASE m.tag = "Lazer" ->
            LET found == FindMap([i \in 1..Len(m.lazer) |-> NoSliderHeadAccOf(m.lazer[i])])
            IN  IF found = None THEN ~lazer ELSE found[1]
      [] m.tag = "Intermode" -> IntermodeContains(m.intermode, "Classic") \/ ~lazer
      [] m.tag = "Legacy"    -> ~lazer

\* ReflectionOf with the arms of "1" and "2" exchanged.
ReflectionOfSwapped(m) ==
    IF IsVariant(m, "HardRock", "Osu") THEN Some("Vertical")
    ELSE IF IsVariant(m, "Mirror", "Osu")
    THEN IF m.reflection = None THEN Some("Horizontal")
         ELSE IF m.reflection = Some("1") THEN Some("Both")
         ELSE IF m.reflection = Some("2") THEN Some("Vertical")
         ELSE Some("None")
    ELSE IF IsVariant(m, "Mirror", "Catch") THEN Some("Horizontal")
    ELSE None

\* ReflectionOf without the HardRockOsu arm.
ReflectionOfNoHardRock(m) ==
    IF IsVariant(m, "Mirror", "Osu")
    THEN IF m.reflection = None THEN Some("Horizontal")
         ELSE IF m.reflection = Some("1") THEN Some("Vertical")
         ELSE IF m.reflection = Some("2") THEN Some("Both")
         ELSE Some("None")
    ELSE IF IsVariant(m, "Mirror", "Catch") THEN Some("Horizontal")
    ELSE None

ReflectionOf(m) ==
    IF IsVariant(m, "HardRock", "Osu") THEN Some("Vertical")
    ELSE IF IsVariant(m, "Mirror", "Osu")
    THEN IF m.reflection = None THEN Some("Horizontal")
         ELSE IF m.reflection = Some("1") THEN Some("Vertical")
         ELSE IF m.reflection = Some("2") THEN Some("Both")
         ELSE Some("None")
    ELSE IF IsVariant(m, "Mirror", "Catch") THEN Some("Horizontal")
    ELSE None

\* GameMods::reflection
reflection(m) ==
    CASE m.tag = "Lazer" ->
            LET found == FindMap([i \in 1..Len(m.lazer) |-> ReflectionOf(m.lazer[i])])
            IN  IF found = None THEN "None" ELSE found[1]
      [] m.tag = "Intermode" ->
            IF IntermodeContains(m.intermode, "HardRock") THEN "Vertical" ELSE "None"
      [] m.tag = "Legacy" ->
            IF LegacyContains(m.legacy, "HardRock") THEN "Vertical" ELSE "None"

\* The flags of the Legacy ladder of mania_keys, Key1 to Key9.
LegacyKeys == <<"Key1", "Key2", "Key3", "Key4", "Key5", "Key6", "Key7", "Key8", "Key9">>

\* A ladder that keeps the last rung that holds.
LadderLast(hits) ==
    IF hits = {} THEN None
    ELSE Some(CHOOSE i \in hits : \A j \in hits : i >= j)

\* An if / else-if ladder, given the rungs whose condition holds: the first
\* of them.
Ladder(hits) ==
    IF hits = {} THEN None
    ELSE Some(CHOOSE i \in hits : \A j \in hits : i <= j)

\* GameMods::mania_keys
mania_keys(m) ==
    CASE m.tag = "Lazer" ->
            Ladder({i \in 1..Len(KeyIds) : ContainsIntermode(m.lazer, KeyIds[i])})
      [] m.tag = "Intermode" ->
            Ladder({i \in 1..Len(KeyIds) : IntermodeContains(m.intermode, KeyIds[i])})
      [] m.tag = "Legacy" ->
            Ladder({i \in 1..Len(LegacyKeys) : LegacyContains(m.legacy, LegacyKeys[i])})

ScrollSpeedOf(m) ==
    IF IsVariant(m, "DifficultyAdjust", "Taiko") THEN Some(m.scroll_speed) ELSE None

\* GameMods::scroll_speed: find_map yields an Option<Option<f64>>, flattened.
scroll_speed(m) ==
    IF m.tag # "Lazer" THEN None
    ELSE LET found == FindMap([i \in 1..Len(m.lazer) |-> ScrollSpeedOf(m.lazer[i])])
         IN  IF found = None THEN None ELSE found[1]

RandomSeedOf(m) ==
    IF IsVariant(m, "Random", "Taiko") \/ IsVariant(m, "Random", "Mania")
    THEN m.seed ELSE None

\* GameMods::random_seed
random_seed(m) ==
    IF m.tag # "Lazer" THEN None
    ELSE LET found == FindMap([i \in 1..Len(m.lazer) |-> RandomSeedOf(m.lazer[i])])
         IN  IF found = None THEN None ELSE Some(F64AsI32(found[1]))

\* impl_map_attr!: the table of the macro invocation, fn |-> (field, modes).
MapAttrFns == {"ar", "cs", "hp", "od"}

\* The invocation table with the mode list of ar and cs on every line.
MapAttrModesNarrow(fn) == {"Osu", "Catch"}

MapAttrModes(fn) ==
    IF fn \in {"ar", "cs"} THEN {"Osu", "Catch"}
    ELSE {"Osu", "Taiko", "Catch", "Mania"}

MapAttrField(fn, m) ==
    CASE fn = "ar" -> m.approach_rate
      [] fn = "cs" -> m.circle_size
      [] fn = "hp" -> m.drain_rate
      [] fn = "od" -> m.overall_difficulty

\* impl_map_attr!: the generated fn `fn`.
map_attr(fn, m) ==
    IF m.tag # "Lazer" THEN None
    ELSE LET Of(e) == IF e.id = "DifficultyAdjust" /\ e.mode \in MapAttrModes(fn)
                      THEN MapAttrField(fn, e) ELSE None
         IN  FindMap([i \in 1..Len(m.lazer) |-> Of(m.lazer[i])])


(***************************************************************************)
(* Inputs: what a caller can hand to the constructors.                     *)
(***************************************************************************)
RECURSIVE SubsetsUpTo(_, _)
\* The subsets of S of at most k elements.
SubsetsUpTo(S, k) ==
    IF k = 0 THEN {{}}
    ELSE LET P == SubsetsUpTo(S, k - 1)
         IN  P \cup {p \cup {x} : p \in P, x \in S}

\* The GameMod entries the model draws from: for every variant a query
\* inspects, one entry per outcome of its settings; variants carry only the
\* settings their struct has.
ModUniverse ==
    { Mod("DoubleTime", "Osu"),
      [Mod("DoubleTime", "Osu") EXCEPT !.speed_change = Some(F64_1_25)],
      [Mod("HalfTime", "Osu") EXCEPT !.speed_change = Some(F64_0_8)],
      Mod("Nightcore", "Osu"),
      [Mod("Nightcore", "Osu") EXCEPT !.speed_change = Some(F64_1_8)],
      [Mod("Daycore", "Osu") EXCEPT !.speed_change = Some(F64_0_9)],
      [Mod("Daycore", "Osu") EXCEPT !.speed_change = Some(F64_0_8)],
      Mod("HardRock", "Osu"),
      Mod("HardRock", "Catch"),
      Mod("Easy", "Osu"),
      Mod("Mirror", "Osu"),
      [Mod("Mirror", "Osu") EXCEPT !.reflection = Some("0")],
      [Mod("Mirror", "Osu") EXCEPT !.reflection = Some("1")],
      [Mod("Mirror", "Osu") EXCEPT !.reflection = Some("2")],
      Mod("Mirror", "Catch"),
      Mod("Classic", "Osu"),
      [Mod("Classic", "Osu") EXCEPT !.no_slider_head_accuracy = Some(FALSE)],
      Mod("Classic", "Taiko"),
      [Mod("DifficultyAdjust", "Osu") EXCEPT !.approach_rate = Some(F64_5_0),
                                             !.overall_difficulty = Some(F64_0_9)],
      [Mod("DifficultyAdjust", "Taiko") EXCEPT !.scroll_speed = Some(F64_1_25),
                                               !.drain_rate = Some(F64_2_5)],
      Mod("DifficultyAdjust", "Taiko"),
      [Mod("DifficultyAdjust", "Catch") EXCEPT !.circle_size = Some(F64_2_5),
                                               !.approach_rate = Some(F64_0_8),
                                               !.hard_rock_offsets = Some(FALSE)],
      [Mod("DifficultyAdjust", "Mania") EXCEPT !.overall_difficulty = Some(F64_0_5)],
      Mod("Random", "Taiko"),
      [Mod("Random", "Taiko") EXCEPT !.seed = Some(F64_5_0)],
      [Mod("Random", "Mania") EXCEPT !.seed = Some(F64_2_5)],
      [Mod("Random", "Mania") EXCEPT !.seed = Some(F64_3e9)],
      [Mod("Random", "Osu") EXCEPT !.seed = Some(F64_5_0)],
      Mod("FourKeys", "Mania"),
      Mod("FiveKeys", "Mania"),
      Mod("TenKeys", "Mania") }

\* GameModsLazer: an ordered collection holding each variant at most once.
LazerCollections ==
    UNION { { s \in [1..n -> ModUniverse] :
                \A i, j \in 1..n :
                    (s[i].id = s[j].id /\ s[i].mode = s[j].mode) => i = j }
            : n \in 0..MaxMods }

Input(kind, bits, ids, lazer) ==
    [kind |-> kind, bits |-> bits, ids |-> ids, lazer |-> lazer]

\* The inputs a request can start from, one disjunct per kind of input.
IsInput(i) ==
    \/ i = Input("default", {}, {}, <<>>)
    \/ \E b \in SubsetsUpTo(U32Bits, MaxBits) : i = Input("u32", b, {}, <<>>)
    \/ \E b \in SubsetsUpTo(LegacyAllBits, MaxBits) : i = Input("legacy", b, {}, <<>>)
    \/ \E ids \in SubsetsUpTo(Identities, MaxIds) : i = Input("intermode", {}, ids, <<>>)
    \/ \E ids \in SubsetsUpTo(Identities, MaxIds) : i = Input("intermode_ref", {}, ids, <<>>)
    \/ \E l \in LazerCollections : i = Input("lazer", {}, {}, l)

\* The value of `mods` before the request's GameMods is constructed.
Unbuilt == [tag |-> "Unbuilt", lazer |-> <<>>, intermode |-> {}, legacy |-> {}]

(***************************************************************************)
(* The state machine: one calculation request.  The caller holds an input, *)
(* constructs the GameMods from it once, and then calls queries on it, one *)
(* call at a time; `query`, `arg` and `result` describe the call in        *)
(* progress.                                                               *)
(***************************************************************************)
Init ==
    /\ IsInput(input)
    /\ mods = Unbuilt
    /\ query = "none"
    /\ arg = FALSE
    /\ result = None

Construct(kind, value) ==
    /\ mods = Unbuilt
    /\ input.kind = kind
    /\ mods' = value
    /\ UNCHANGED <<input, query, arg, result>>

ConstructDefault == Construct("default", Default)
ConstructFromU32 == Construct("u32", FromU32(input.bits))
ConstructFromLegacy == Construct("legacy", FromLegacy(input.bits))
ConstructFromLazer == Construct("lazer", FromLazer(input.lazer))
ConstructFromIntermode == Construct("intermode", FromIntermode(input.ids))
ConstructFromIntermodeRef == Construct("intermode_ref", FromIntermodeRef(input.ids))

Call(q, a, r) ==
    /\ mods # Unbuilt
    /\ query = "none"
    /\ query' = q
    /\ arg' = a
    /\ result' = r
    /\ UNCHANGED <<input, mods>>

CallClockRate == Call("clock_rate", FALSE, clock_rate(mods))
CallOdArHpMultiplier == Call("od_ar_hp_multiplier", FALSE, od_ar_hp_multiplier(mods))
CallHardrockOffsets == Call("hardrock_offsets", FALSE, hardrock_offsets(mods))
CallNoSliderHeadAcc ==
    \E lazer \in BOOLEAN : Call("no_slider_head_acc", lazer, no_slider_head_acc(mods, lazer))
CallReflection == Call("reflection", FALSE, reflection(mods))
CallManiaKeys == Call("mania_keys", FALSE, mania_keys(mods))
CallScrollSpeed == Call("scroll_speed", FALSE, scroll_speed(mods))
CallRandomSeed == Call("random_seed", FALSE, random_seed(mods))
CallMapAttr == \E fn \in MapAttrFns : Call(fn, FALSE, map_attr(fn, mods))
CallHasMod == \E fn \in HasModFns : Call(fn, FALSE, has_mod(fn, mods))

\* The call returns: the caller has consumed the result.
Return ==
    /\ query # "none"
    /\ query' = "none"
    /\ arg' = FALSE
    /\ result' = None
    /\ UNCHANGED <<input, mods>>

Next ==
    \/ ConstructDefault
    \/ ConstructFromU32
    \/ ConstructFromLegacy
    \/ ConstructFromLazer
    \/ ConstructFromIntermode
    \/ ConstructFromIntermodeRef
    \/ CallClockRate
    \/ CallOdArHpMultiplier
    \/ CallHardrockOffsets
    \/ CallNoSliderHeadAcc
    \/ CallReflection
    \/ CallManiaKeys
    \/ CallScrollSpeed
    \/ CallRandomSeed
    \/ CallMapAttr
    \/ CallHasMod
    \/ Return

Spec == Init /\ [][Next]_vars


(***************************************************************************)
(* Vocabulary of the properties.                                           *)
(***************************************************************************)

\* The answer of query q (with flag a, read by no_slider_head_acc only) on m.
Answer(q, a, m) ==
    CASE q = "clock_rate"          -> clock_rate(m)
      [] q = "od_ar_hp_multiplier" -> od_ar_hp_multiplier(m)
      [] q = "hardrock_offsets"    -> hardrock_offsets(m)
      [] q = "no_slider_head_acc"  -> no_slider_head_acc(m, a)
      [] q = "reflection"          -> reflection(m)
      [] q = "mania_keys"          -> mania_keys(m)
      [] q = "scroll_speed"        -> scroll_speed(m)
      [] q = "random_seed"         -> random_seed(m)
      [] q \in MapAttrFns          -> map_attr(q, m)
      [] q \in HasModFns           -> has_mod(q, m)

\* A call of query q is in progress and `result` holds its answer.
Called(q) == query = q

\* The bit position the legacy enumeration gives a legacy-representable
\* presence predicate.
PresenceBit(fn) ==
    CASE fn = "nf" -> 0
      [] fn = "ez" -> 1
      [] fn = "td" -> 2
      [] fn = "hd" -> 3
      [] fn = "hr" -> 4
      [] fn = "rx" -> 7
      [] fn = "fl" -> 10
      [] fn = "so" -> 12
      [] fn = "ap" -> 13

LegacyPresenceFns == {"nf", "ez", "td", "hd", "hr", "rx", "fl", "so", "ap"}
ModernOnlyFns == {"bl", "cl", "invert", "ho", "tc"}

\* The bit position of the legacy "N keys" flag, N in 1..9.
KeyBit(n) == <<26, 28, 27, 15, 16, 17, 18, 19, 24>>[n]

\* The identities of the entries of a Lazer collection.
IdsOf(lazer) == {lazer[i].id : i \in 1..Len(lazer)}

RECURSIVE FirstTrue(_, _)
\* The first position, from i on, at which the sequence of booleans holds
\* TRUE; 0 when there is none.
FirstTrue(flags, i) ==
    IF i > Len(flags) THEN 0
    ELSE IF flags[i] THEN i
    ELSE FirstTrue(flags, i + 1)

\* Exact numeric equality of an f64 and an integer below 2^31 in magnitude.
F64EqualsInt(x, n) ==
    /\ x.e >= 0 /\ x.e <= 30
    /\ (x.s = 1) = (n < 0)
    /\ IF x.e <= 26
       THEN x.lo = 0 /\ x.hi % 2^(26 - x.e) = 0
            /\ x.hi \div 2^(26 - x.e) = (IF n < 0 THEN -n ELSE n)
       ELSE x.lo % 2^(52 - x.e) = 0
            /\ x.hi * 2^(x.e - 26) + (x.lo \div 2^(52 - x.e)) = (IF n < 0 THEN -n ELSE n)


(***************************************************************************)
(* Properties.                                                             *)
(***************************************************************************)

\* C1: for every Intermediate set S, the GameMods constructed from &S gives
\* the answer of the GameMods constructed from S by value (the Intermode
\* variant) on every query; and when every identity of S has a legacy bit,
\* the GameMods constructed from &S is the Legacy variant and gives the
\* answer of the GameMods constructed from the equivalent bitmask of S.
C1_RefAgreesWithValueAndBitmask ==
    (input.kind = "intermode_ref" /\ mods # Unbuilt) =>
        /\ query # "none" =>
              result = Answer(query, arg, FromIntermode(input.ids))
        /\ (\A id \in input.ids : IntermodeBits(id) # None) =>
              /\ mods.tag = "Legacy"
              /\ query # "none" =>
                    result = Answer(query, arg,
                                    FromU32(UNION {IntermodeBits(id)[1] : id \in input.ids}))

\* C1 witness: {HardRock, Nightcore} is downgraded to Legacy (Nightcore
\* bringing the DoubleTime bit along) and clock_rate has answered 1.5.
C1_Witness ==
    /\ input.kind = "intermode_ref"
    /\ input.ids = {"HardRock", "Nightcore"}
    /\ mods = Legacy({4, 6, 9})
    /\ Called("clock_rate")
    /\ result = F64_1_5

\* What a query answers when it reports "no mods" / "unset"; for
\* no_slider_head_acc, "no suppression".
NoModsAnswer(q) ==
    CASE q \in HasModFns -> FALSE
      [] q \in {"clock_rate", "od_ar_hp_multiplier"} -> F64_1_0
      [] q \in MapAttrFns \cup {"scroll_speed", "random_seed", "mania_keys"} -> None
      [] q = "reflection" -> "None"
      [] q = "hardrock_offsets" -> FALSE
      [] q = "no_slider_head_acc" -> FALSE

\* C2 as stated: the default GameMods is Legacy with no bits set and every
\* query answers "no mods" / "unset", no_slider_head_acc reporting no
\* suppression for either value of its flag.
C2_Original ==
    (input.kind = "default" /\ mods # Unbuilt) =>
        /\ mods = Legacy({})
        /\ query # "none" => result = NoModsAnswer(query)

\* C2 amended: the default GameMods is Legacy with no bits set; every
\* presence predicate is false, clock_rate and od_ar_hp_multiplier are 1.0,
\* ar, cs, hp, od, scroll_speed, random_seed and mania_keys are None,
\* reflection is None, hardrock_offsets is false, and no_slider_head_acc(flag)
\* is the negation of flag: true for flag = false, false for flag = true.
C2_DefaultIsNoMods ==
    (input.kind = "default" /\ mods # Unbuilt) =>
        /\ mods = Legacy({})
        /\ (query # "none" /\ query # "no_slider_head_acc") =>
              result = NoModsAnswer(query)
        /\ Called("no_slider_head_acc") => result = ~arg

\* C2 witness: no_slider_head_acc(false) has answered true on the default.
C2_Witness ==
    /\ input.kind = "default"
    /\ mods = Legacy({})
    /\ Called("no_slider_head_acc")
    /\ arg = FALSE
    /\ result = TRUE

\* C3: construction from a raw bitmask b yields the Legacy variant holding
\* the bits of b the legacy enumeration has; each legacy-representable
\* presence predicate is true exactly when its bit is set in b, and each
\* modern-only predicate is false.
C3_FromBitsPresence ==
    (input.kind = "u32" /\ mods # Unbuilt) =>
        /\ mods.tag = "Legacy"
        /\ mods.legacy = {b \in input.bits : b <= 30}
        /\ \A fn \in LegacyPresenceFns :
              Called(fn) => result = (PresenceBit(fn) \in input.bits)
        /\ \A fn \in ModernOnlyFns : Called(fn) => result = FALSE

\* C3 witness: from the bitmask with the Hard-Rock bit and bit 31, bit 31 is
\* dropped and hr() has answered true.
C3_Witness ==
    /\ input.kind = "u32"
    /\ input.bits = {4, 31}
    /\ mods = Legacy({4})
    /\ Called("hr")
    /\ result = TRUE

\* C4: od_ar_hp_multiplier is 1.4 whenever hr() holds (also when ez() holds
\* too), 0.5 when hr() does not hold and ez() does, 1.0 when neither holds,
\* in all three representations.
C4_MultiplierPriority ==
    Called("od_ar_hp_multiplier") =>
        /\ mods.tag \in {"Lazer", "Intermode", "Legacy"}
        /\ has_mod("hr", mods) => result = F64_1_4
        /\ (~has_mod("hr", mods) /\ has_mod("ez", mods)) => result = F64_0_5
        /\ (~has_mod("hr", mods) /\ ~has_mod("ez", mods)) => result = F64_1_0

\* C4 witness: Hard-Rock and Easy both present, the multiplier is 1.4.
C4_Witness ==
    /\ mods = Legacy({1, 4})
    /\ Called("od_ar_hp_multiplier")
    /\ result = F64_1_4

\* Whether the "n keys" identity is present, read off the representation.
KeyPresent(m, n) ==
    CASE m.tag = "Lazer"     -> KeyIds[n] \in IdsOf(m.lazer)
      [] m.tag = "Intermode" -> KeyIds[n] \in m.intermode
      [] m.tag = "Legacy"    -> n <= 9 /\ KeyBit(n) \in m.legacy

\* C5: mania_keys returns the smallest N whose "N keys" identity is present,
\* N ranging over 1..10 for Lazer and Intermode and over 1..9 for Legacy,
\* and None when there is none; a Lazer collection with only "4 keys", or
\* with "4 keys" and "5 keys" in either order, yields 4.
C5_ManiaKeysSmallest ==
    Called("mania_keys") =>
        LET lim     == IF mods.tag = "Legacy" THEN 9 ELSE 10
            present == {n \in 1..lim : KeyPresent(mods, n)}
        IN  /\ IF present = {} THEN result = None
               ELSE /\ result # None
                    /\ result[1] \in present
                    /\ \A n \in present : result[1] <= n
            /\ (mods.tag = "Lazer" /\ IdsOf(mods.lazer) = {"FourKeys"}) =>
                  result = Some(4)
            /\ (mods.tag = "Lazer" /\ IdsOf(mods.lazer) = {"FourKeys", "FiveKeys"}) =>
                  result = Some(4)

\* C5 witness: "5 keys" stored before "4 keys", mania_keys has answered 4.
C5_Witness ==
    /\ mods.tag = "Lazer"
    /\ Len(mods.lazer) = 2
    /\ mods.lazer[1].id = "FiveKeys"
    /\ mods.lazer[2].id = "FourKeys"
    /\ Called("mania_keys")
    /\ result = Some(4)


\* The entries reflection() looks at.
ReflectionRelevant(m) ==
    \/ IsVariant(m, "HardRock", "Osu")
    \/ IsVariant(m, "Mirror", "Osu")
    \/ IsVariant(m, "Mirror", "Catch")

\* C6: for a Lazer collection whose only reflection-relevant entry is the
\* osu mirror mod, reflection is Both for parameter "2", Vertical for "1",
\* Horizontal for an absent parameter and None for any other value; with a
\* catch mirror mod as the only relevant entry it is Horizontal; with no
\* mirror mod and no Hard-Rock mod of any mode it is None.
C6_MirrorReflection ==
    (Called("reflection") /\ mods.tag = "Lazer") =>
        LET rel == SelectSeq(mods.lazer, ReflectionRelevant)
        IN  /\ (Len(rel) = 1 /\ IsVariant(rel[1], "Mirror", "Osu")) =>
                  result = CASE rel[1].reflection = Some("2") -> "Both"
                             [] rel[1].reflection = Some("1") -> "Vertical"
                             [] rel[1].reflection = None      -> "Horizontal"
                             [] OTHER                         -> "None"
            /\ (Len(rel) = 1 /\ IsVariant(rel[1], "Mirror", "Catch")) =>
                  result = "Horizontal"
            /\ (IdsOf(mods.lazer) \cap {"Mirror", "HardRock"} = {}) =>
                  result = "None"

\* C6 witness: the osu mirror mod with parameter "2" behind an entry
\* reflection() skips, reflection has answered Both.
C6_Witness ==
    /\ mods.tag = "Lazer"
    /\ Len(mods.lazer) = 2
    /\ mods.lazer[1].id = "Easy"
    /\ IsVariant(mods.lazer[2], "Mirror", "Osu")
    /\ mods.lazer[2].reflection = Some("2")
    /\ Called("reflection")
    /\ result = "Both"

RateIds == {"DoubleTime", "HalfTime", "Nightcore", "Daycore"}

\* An entry of a rate-affecting identity that carries a configured rate.
CarriesRate(m) == m.id \in RateIds /\ m.speed_change # None

\* C7 as stated: for a Lazer collection clock_rate returns the configured
\* rate of the first entry, in collection order, whose identity is
\* DoubleTime, HalfTime, Nightcore or Daycore and that carries a configured
\* rate (for Nightcore and Daycore, nominal * (custom / nominal) being the
\* custom rate), and 1.0 when there is no such entry.
C7_Original ==
    (Called("clock_rate") /\ mods.tag = "Lazer") =>
        LET i == FirstTrue([k \in 1..Len(mods.lazer) |-> CarriesRate(mods.lazer[k])], 1)
        IN  result = IF i = 0 THEN F64_1_0 ELSE mods.lazer[i].speed_change[1]

\* 1.7999999999999998 and 0.8999999999999999, the f64 just below 1.8 and 0.9.
F64_1_8_pred == F64(0, 0, 120795955, 13421772)
F64_0_9_pred == F64(0, -1, 120795955, 13421772)

\* C7 amended: the scan is as stated (first entry of a rate-affecting
\* identity that carries a configured rate; entries without a rate and other
\* identities skipped; 1.0 when none yields a rate).  DoubleTime and HalfTime
\* return the configured rate itself; Nightcore and Daycore return the f64
\* value of nominal * (custom / nominal), which is the custom rate only up to
\* the rounding of the division and of the multiplication: 0.8 is returned
\* as 0.8, but 1.8 as 1.7999999999999998 and 0.9 as 0.8999999999999999.
C7_ClockRateScan ==
    (Called("clock_rate") /\ mods.tag = "Lazer") =>
        LET i == FirstTrue([k \in 1..Len(mods.lazer) |-> CarriesRate(mods.lazer[k])], 1)
        IN  IF i = 0 THEN result = F64_1_0
            ELSE LET m      == mods.lazer[i]
                     custom == m.speed_change[1]
                     nominal == IF m.id = "Nightcore" THEN F64_1_5 ELSE F64_0_75
                 IN  /\ m.id \in {"DoubleTime", "HalfTime"} => result = custom
                     /\ m.id \in {"Nightcore", "Daycore"} =>
                           /\ result = F64MulNominal(nominal, F64DivNominal(custom, nominal))
                           /\ custom = F64_0_8 => result = F64_0_8
                           /\ (m.id = "Nightcore" /\ custom = F64_1_8) => result = F64_1_8_pred
                           /\ (m.id = "Daycore" /\ custom = F64_0_9) => result = F64_0_9_pred

\* C7 witness: a Nightcore entry without a rate is skipped and the Daycore
\* entry behind it, configured to 0.9, has given 0.8999999999999999.
C7_Witness ==
    /\ mods.tag = "Lazer"
    /\ Len(mods.lazer) = 2
    /\ mods.lazer[1].id = "Nightcore" /\ mods.lazer[1].speed_change = None
    /\ mods.lazer[2].id = "Daycore" /\ mods.lazer[2].speed_change = Some(F64_0_9)
    /\ Called("clock_rate")
    /\ result = F64_0_9_pred

\* The setting a settings-bearing query reads off a difficulty-adjust entry.
SettingOf(q, m) ==
    CASE q = "ar" -> m.approach_rate
      [] q = "cs" -> m.circle_size
      [] q = "hp" -> m.drain_rate
      [] q = "od" -> m.overall_difficulty
      [] q = "scroll_speed" -> m.scroll_speed

\* The modes whose difficulty-adjust mod a settings-bearing query reads.
ModesOf(q) ==
    CASE q \in {"ar", "cs"} -> {"Osu", "Catch"}
      [] q \in {"hp", "od"} -> {"Osu", "Taiko", "Catch", "Mania"}
      [] q = "scroll_speed" -> {"Taiko"}

\* The setting of the first difficulty-adjust entry of one of the modes of q
\* that has the setting, None when there is none.
FirstSetting(q, lazer) ==
    LET Has(m) == /\ m.id = "DifficultyAdjust"
                  /\ m.mode \in ModesOf(q)
                  /\ SettingOf(q, m) # None
        i == FirstTrue([k \in 1..Len(lazer) |-> Has(lazer[k])], 1)
    IN  IF i = 0 THEN None ELSE SettingOf(q, lazer[i])

\* A taiko or mania random mod that has a seed.
HasSeed(m) == m.id = "Random" /\ m.mode \in {"Taiko", "Mania"} /\ m.seed # None

SettingsQueries == {"ar", "cs", "hp", "od", "scroll_speed", "random_seed"}

\* The part of C8 that does not concern the value of random_seed.
C8_Common ==
    /\ \A q \in SettingsQueries :
          (Called(q) /\ mods.tag \in {"Intermode", "Legacy"}) => result = None
    /\ \A q \in SettingsQueries \ {"random_seed"} :
          (Called(q) /\ mods.tag = "Lazer") => result = FirstSetting(q, mods.lazer)
    /\ (Called("random_seed") /\ mods.tag = "Lazer"
          /\ FirstTrue([k \in 1..Len(mods.lazer) |-> HasSeed(mods.lazer[k])], 1) = 0) => result = None

\* C8 as stated: ar, cs, hp, od, scroll_speed and random_seed are None for
\* Intermode and Legacy; for Lazer each returns the explicit setting of the
\* difficulty-adjust (for random_seed: taiko or mania random) mod of its
\* modes, random_seed returning the seed setting itself.
C8_Original ==
    /\ C8_Common
    /\ (Called("random_seed") /\ mods.tag = "Lazer"
          /\ FirstTrue([k \in 1..Len(mods.lazer) |-> HasSeed(mods.lazer[k])], 1) # 0) =>
          /\ result # None
          /\ F64EqualsInt(mods.lazer[FirstTrue([k \in 1..Len(mods.lazer) |-> HasSeed(mods.lazer[k])], 1)].seed[1], result[1])

\* C8 amended: as stated, except that random_seed returns the seed of the
\* first taiko or mania random mod that has one converted to i32, that is
\* truncated toward zero and saturated at the bounds of i32 (2.5 gives 2, 3e9 gives
\* 2147483647).
C8_SettingsQueries ==
    /\ C8_Common
    /\ (Called("random_seed") /\ mods.tag = "Lazer"
          /\ FirstTrue([k \in 1..Len(mods.lazer) |-> HasSeed(mods.lazer[k])], 1) # 0) =>
          LET seed == mods.lazer[FirstTrue([k \in 1..Len(mods.lazer) |-> HasSeed(mods.lazer[k])], 1)].seed[1]
          IN  /\ result = Some(F64AsI32(seed))
              /\ seed = F64_2_5 => result = Some(2)
              /\ seed = F64_5_0 => result = Some(5)
              /\ seed = F64_3e9 => result = Some(I32Max)

\* C8 witness: a taiko random mod without seed, then a mania random mod with
\* seed 2.5; random_seed has answered 2.
C8_Witness ==
    /\ mods.tag = "Lazer"
    /\ Len(mods.lazer) = 2
    /\ IsVariant(mods.lazer[1], "Random", "Taiko") /\ mods.lazer[1].seed = None
    /\ IsVariant(mods.lazer[2], "Random", "Mania") /\ mods.lazer[2].seed = Some(F64_2_5)
    /\ Called("random_seed")
    /\ result = Some(2)

\* Whether a mirror mod is present, read off the representation.
MirrorPresent(m) ==
    CASE m.tag = "Lazer"     -> "Mirror" \in IdsOf(m.lazer)
      [] m.tag = "Intermode" -> "Mirror" \in m.intermode
      [] m.tag = "Legacy"    -> 30 \in m.legacy

\* The part of C9 about the Intermode and Legacy representations.
C9_Common ==
    (Called("reflection") /\ mods.tag \in {"Intermode", "Legacy"}) =>
        /\ (has_mod("hr", mods) /\ ~MirrorPresent(mods)) => result = "Vertical"
        /\ ~has_mod("hr", mods) => result = "None"

\* C9 as stated: in all three representations hr() without a mirror mod
\* gives Vertical, Intermode and Legacy without Hard-Rock give None, and a
\* Lazer collection without a mirror mod agrees with the Intermode set of
\* its identities.
C9_Original ==
    /\ C9_Common
    /\ (Called("reflection") /\ mods.tag = "Lazer" /\ ~MirrorPresent(mods)) =>
          /\ has_mod("hr", mods) => result = "Vertical"
          /\ result = reflection(FromIntermode(IdsOf(mods.lazer)))

\* C9 amended: for Intermode and Legacy as stated; a Lazer collection
\* without a mirror mod gives Vertical when it holds the osu-mode Hard-Rock
\* mod, and agrees with the Intermode set of its identities when every
\* Hard-Rock mod it holds is the osu-mode one (a Hard-Rock mod of another
\* mode makes hr() true and leaves the reflection None).
C9_HardRockReflection ==
    /\ C9_Common
    /\ (Called("reflection") /\ mods.tag = "Lazer" /\ ~MirrorPresent(mods)) =>
          /\ (\E i \in 1..Len(mods.lazer) : IsVariant(mods.lazer[i], "HardRock", "Osu")) =>
                result = "Vertical"
          /\ (\A i \in 1..Len(mods.lazer) :
                  mods.lazer[i].id = "HardRock" => mods.lazer[i].mode = "Osu") =>
                result = reflection(FromIntermode(IdsOf(mods.lazer)))

\* C9 witness: the osu Hard-Rock mod alone, reflection has answered Vertical.
C9_Witness ==
    /\ mods = Lazer(<<Mod("HardRock", "Osu")>>)
    /\ Called("reflection")
    /\ result = "Vertical"

\* The no_slider_head_accuracy setting of an entry, true when absent.
SliderSetting(m) ==
    IF m.no_slider_head_accuracy = None THEN TRUE ELSE m.no_slider_head_accuracy[1]

\* The part of C10 about the Intermode and Legacy representations.
C10_Common ==
    Called("no_slider_head_acc") =>
        /\ mods.tag = "Legacy" => result = ~arg
        /\ mods.tag = "Intermode" => result = ("Classic" \in mods.intermode \/ ~arg)

\* C10 as stated: for a Lazer collection containing a classic mod, that
\* mod's setting (true when absent) whatever the flag; without a classic
\* mod, true exactly when the flag is unset.
C10_Original ==
    /\ C10_Common
    /\ (Called("no_slider_head_acc") /\ mods.tag = "Lazer") =>
          IF "Classic" \in IdsOf(mods.lazer)
          THEN \E i \in 1..Len(mods.lazer) :
                  mods.lazer[i].id = "Classic" /\ result = SliderSetting(mods.lazer[i])
          ELSE result = ~arg

\* C10 amended: as stated with "the classic mod" being the osu-mode classic
\* mod, the only one that has the setting: a Lazer collection containing it
\* gives its setting (true when absent) whatever the flag, and any other
\* Lazer collection, also one with a classic mod of another mode, gives true
\* exactly when the flag is unset.
C10_NoSliderHeadAcc ==
    /\ C10_Common
    /\ (Called("no_slider_head_acc") /\ mods.tag = "Lazer") =>
          LET IsClassicOsu(m) == IsVariant(m, "Classic", "Osu")
              i == FirstTrue([k \in 1..Len(mods.lazer) |-> IsClassicOsu(mods.lazer[k])], 1)
          IN  IF i # 0 THEN result = SliderSetting(mods.lazer[i])
              ELSE result = ~arg

\* C10 witness: the osu classic mod with the setting false and the flag
\* unset, no_slider_head_acc has answered false.
C10_Witness ==
    /\ mods.tag = "Lazer"
    /\ Len(mods.lazer) = 1
    /\ IsVariant(mods.lazer[1], "Classic", "Osu")
    /\ mods.lazer[1].no_slider_head_accuracy = Some(FALSE)
    /\ Called("no_slider_head_acc")
    /\ arg = FALSE
    /\ result = FALSE

====
